---- MODULE Spec2Model ----
(***************************************************************************)
(* Model of the retrieval-and-synthesis pipeline of hukuk_rag_mvp:         *)
(*   ChromaManager      (src/src/database/chroma_manager.py)               *)
(*   RAGPipeline        (src/src/retrieval/rag_pipeline.py)                *)
(*   DocumentProcessor  (src/src/processing/document_processor.py)         *)
(*                                                                         *)
(* Numbers.  Similarities and confidences are fixed-point numbers in       *)
(* thousandths (One = 1.0).  Raw distances are counted in ticks of 0.04,   *)
(* so that the code's divisor 20.0 is 500 ticks and  d / 20.0  is exactly  *)
(* 2 thousandths per tick.  Every similarity is then an even number of     *)
(* thousandths, and so is every sum with the 0.1 bonus: rounding to two    *)
(* decimals never meets a tie, which is the case for the binary floats of  *)
(* the program as well.                                                    *)
(***************************************************************************)
EXTENDS Integers, Sequences, FiniteSets, TLC

VARIABLES
    config,          \* RAGPipeline.config / ChromaManager.config
    collection,      \* records held by the Chroma collection
    store_exists,    \* the client's store holds a collection of the name
    handle_live,     \* self.collection refers to the collection in the store
    call,            \* what the last operation was called with and met
    next_id,         \* number of uuid4 values drawn so far
    op,              \* the operation that returned last
    ret,             \* its return value
    raised,          \* an exception left the operation
    relevant_docs,   \* the hits the last query got from search
    llm_calls,       \* calls the last query made to chat.completions.create
    distances,       \* raw distances handed to the conversion of search
    similarities,    \* the similarities search attached to them
    text,            \* DocumentProcessor: the text being split
    chunk_size,      \* DocumentProcessor.chunk_size
    chunk_overlap,   \* DocumentProcessor.chunk_overlap
    start,           \* _split_into_chunks: start
    chunks,          \* _split_into_chunks: chunks
    cpc,             \* position in process_file / _split_into_chunks
    file_documents,  \* process_file: the documents it returns
    spc,             \* search running next to delete_all: position
    dpc,             \* delete_all running next to search: position
    snapshot,        \* the records of the collection before delete_all
    raw_results,     \* search: what collection.query returned
    doc_content,     \* _format_sources: doc['content'] of a hit
    preview,         \* _format_sources: the 'preview' built from it
    pipeline_handle_live  \* RAGPipeline.chroma_manager.collection refers
                     \* to the collection in the store

vars == <<config, collection, next_id, op, ret, raised, relevant_docs,
          llm_calls, distances, similarities,
          text, chunk_size, chunk_overlap, start, chunks, cpc,
          file_documents, store_exists, handle_live, call,
          spc, dpc, snapshot, raw_results,
          doc_content, preview, pipeline_handle_live>>

indexVars == <<config, collection, next_id, op, ret, raised, relevant_docs,
               llm_calls, store_exists, handle_live, call>>
storeVars == <<store_exists, handle_live>>
clearVars == <<spc, dpc, snapshot, raw_results>>
normVars  == <<distances, similarities>>
chunkVars == <<text, chunk_size, chunk_overlap, start, chunks, cpc,
               file_documents>>
previewVars == <<doc_content, preview>>
managerVars == <<pipeline_handle_live>>

----------------------------------------------------------------------------
(* Bounds of the model *)

MaxIds     == 3     \* uuid4 values drawn in one behaviour
MaxBatch   == 2     \* documents in one add_documents call
MaxHistory == 4     \* turns of a chat history
MaxHits    == 5     \* hits handed to _calculate_confidence on its own
DistBelow  == 10    \* ticks below 0 of the raw distances given to the conversion
DistMax    == 510   \* largest raw distance given to the conversion (ticks)
DistStep   == 5     \* grid of the raw distances given to the conversion
MaxRawLen    == 11  \* characters of an extracted text
MaxChunkSize == 4   \* largest configured chunk_size
MaxOverlap   == 3   \* largest configured chunk_overlap
MaxChunks    == 13  \* loop iterations of _split_into_chunks that are followed
MaxContentLen == 204  \* characters of the content of a hit

----------------------------------------------------------------------------
(* Arithmetic *)

One == 1000

Min(a, b) == IF a <= b THEN a ELSE b
Max(a, b) == IF a >= b THEN a ELSE b

\* round(x, 2) and f"{x:.2f}" of a value in thousandths: the nearest
\* hundredth, again in thousandths (x >= 0; no ties on the model's grid).
Round2(x) == ((x + 5) \div 10) * 10

\* the loop `for doc in relevant_docs: if similarity < threshold: continue`:
\* the positions (from 1) of the hits that are kept, in order
RECURSIVE KeptPositions(_, _, _)
KeptPositions(docs, threshold, i) ==
    IF i > Len(docs) THEN <<>>
    ELSE IF docs[i].similarity < threshold
         THEN KeptPositions(docs, threshold, i + 1)
         ELSE <<i>> \o KeptPositions(docs, threshold, i + 1)

----------------------------------------------------------------------------
(* Configuration *)

DefaultTopK      == 5
DefaultThreshold == 700

TopKs      == {2, DefaultTopK}
Thresholds == {300, DefaultThreshold}
AltModels  == {"", "alt-model"}     \* "" : no alternative_model configured

PrimaryModel == "openai/gpt-oss-120b:novita"
Temperature  == 100
MaxTokens    == 1000

Configs ==
    [top_k : TopKs, similarity_threshold : Thresholds,
     model : {PrimaryModel}, alternative_model : AltModels,
     temperature : {Temperature}, max_tokens : {MaxTokens}]

----------------------------------------------------------------------------
(* The embedding backend and the index's metric.                           *)
(* An embedding is one coordinate in steps of 0.2; the collection is       *)
(* created with Chroma's default space, squared L2, so the raw distance of *)
(* two texts is the square of the coordinate difference, in ticks of 0.04. *)

Contents  == {"tck", "tmk", "iik"}
Questions == {"ceza", "icra"}

encode(t) ==
    CASE t = "tck"  -> 0
      [] t = "tmk"  -> 12
      [] t = "iik"  -> 30
      [] t = "ceza" -> 0
      [] t = "icra" -> 17

SquaredL2(q, t) == (encode(q) - encode(t)) * (encode(q) - encode(t))

----------------------------------------------------------------------------
(* ChromaManager.search *)

DistanceScale == 500     \* 20.0

\* the conversion without its clamp at 0
SimilarityOf_unclamped(distance) == One - (distance * One) \div DistanceScale

\* similarity = max(0, 1.0 - (distance / 20.0))
SimilarityOf(distance) == Max(0, One - (distance * One) \div DistanceScale)

\* collection.query: the n_results nearest records, nearest first; records
\* at equal distance come in either order.
CollectionQuery(coll, q, n_results) ==
    LET k == Min(n_results, Cardinality(coll))
    IN  { s \in [1..k -> coll] :
            /\ \A i, j \in 1..k : i # j => s[i] # s[j]
            /\ \A i, j \in 1..k :
                 i < j => SquaredL2(q, s[i].content) <= SquaredL2(q, s[j].content)
            /\ \A r \in coll \ {s[i] : i \in 1..k} :
                 \A i \in 1..k :
                   SquaredL2(q, s[i].content) <= SquaredL2(q, r.content) }

\* the formatting loop of search over the raw results
FormatResults(q, results) ==
    [i \in 1..Len(results) |->
        [id         |-> results[i].id,
         content    |-> results[i].content,
         metadata   |-> results[i].metadata,
         distance   |-> SquaredL2(q, results[i].content),
         similarity |-> SimilarityOf(SquaredL2(q, results[i].content))]]

\* the try block of search: the formatted hits, or the exception that the
\* embedding or the collection raised
search_try(q, n_results, backend_ok, results) ==
    IF backend_ok THEN [exc |-> "", hits |-> FormatResults(q, results)]
    ELSE [exc |-> "Exception", hits |-> <<>>]

\* search without its except clause
search_uncaught(q, n_results, backend_ok, results) ==
    search_try(q, n_results, backend_ok, results)

\* search: every failure of the embedding or of the collection is caught
\* and gives [].
search(q, n_results, backend_ok, results) ==
    LET tried == search_try(q, n_results, backend_ok, results)
    IN  IF tried.exc = "" THEN tried ELSE [exc |-> "", hits |-> <<>>]

----------------------------------------------------------------------------
(* RAGPipeline: context, prompt, sources, confidence *)

\* _prepare_context without the threshold test
prepare_context_unfiltered(docs, threshold) ==
    [n \in 1..Len(docs) |->
        [label    |-> n,
         filename |-> docs[n].metadata.filename,
         content  |-> docs[n].content]]

\* _prepare_context with the label taken as enumerate's i
prepare_context_from_zero(docs, threshold) ==
    LET kept == KeptPositions(docs, threshold, 1)
    IN  [n \in 1..Len(kept) |->
            [label    |-> kept[n] - 1,
             filename |-> docs[kept[n]].metadata.filename,
             content  |-> docs[kept[n]].content]]

\* _prepare_context: one labelled block per hit at or above the threshold;
\* the label is the hit's position in relevant_docs (enumerate's i + 1).
prepare_context(docs, threshold) ==
    LET kept == KeptPositions(docs, threshold, 1)
    IN  [n \in 1..Len(kept) |->
            [label    |-> kept[n],
             filename |-> docs[kept[n]].metadata.filename,
             content  |-> docs[kept[n]].content]]

\* chat_history[:3]
LastThree_first(chat_history) ==
    IF Len(chat_history) <= 3 THEN chat_history
    ELSE SubSeq(chat_history, 1, 3)

\* chat_history[-3:]
LastThree(chat_history) ==
    IF Len(chat_history) <= 3 THEN chat_history
    ELSE SubSeq(chat_history, Len(chat_history) - 2, Len(chat_history))

\* msg.get(...) on a history entry that is not a dict raises AttributeError
create_prompt_raises(chat_history) ==
    \E i \in 1..Len(LastThree(chat_history)) :
        LastThree(chat_history)[i].role = "nondict"

\* _create_prompt: system prompt, context, role-labelled history lines and
\* the question.
create_prompt(question, context, chat_history) ==
    [system   |-> "Sen uzman bir Turk hukuk asistanisin.",
     context  |-> context,
     history  |-> [i \in 1..Len(LastThree(chat_history)) |->
                     [label   |-> IF LastThree(chat_history)[i].role = "user"
                                  THEN "Kullanici" ELSE "Asistan",
                      content |-> LastThree(chat_history)[i].content]],
     question |-> question]

\* _format_sources without the threshold test
format_sources_unfiltered(docs, threshold) ==
    [n \in 1..Len(docs) |->
        [filename    |-> docs[n].metadata.filename,
         similarity  |-> Round2(docs[n].similarity),
         chunk_index |-> docs[n].metadata.chunk_index,
         preview     |-> docs[n].content]]

\* _format_sources
format_sources(docs, threshold) ==
    LET kept == KeptPositions(docs, threshold, 1)
    IN  [n \in 1..Len(kept) |->
            [filename    |-> docs[kept[n]].metadata.filename,
             similarity  |-> Round2(docs[kept[n]].similarity),
             chunk_index |-> docs[kept[n]].metadata.chunk_index,
             preview     |-> docs[kept[n]].content]]

BonusPerDoc == 100     \* 0.1
MaxBonus    == 300     \* 0.3

\* max(doc.get('similarity', 0) for doc in relevant_docs)
RECURSIVE MaxSimilarity(_, _)
MaxSimilarity(docs, i) ==
    IF i = Len(docs) THEN docs[i].similarity
    ELSE Max(docs[i].similarity, MaxSimilarity(docs, i + 1))

\* sum(1 for doc in relevant_docs if similarity >= threshold)
RECURSIVE CountGood(_, _, _)
CountGood(docs, threshold, i) ==
    IF i > Len(docs) THEN 0
    ELSE (IF docs[i].similarity >= threshold THEN 1 ELSE 0)
         + CountGood(docs, threshold, i + 1)

RECURSIVE SumSimilarity(_, _)
SumSimilarity(docs, i) ==
    IF i > Len(docs) THEN 0
    ELSE docs[i].similarity + SumSimilarity(docs, i + 1)

\* the confidence as the mean similarity of the hits
calculate_confidence_mean(docs, threshold) ==
    IF docs = <<>> THEN 0
    ELSE Round2(Min(SumSimilarity(docs, 1) \div Len(docs), One))

\* the confidence without the final clamp to 1.0
calculate_confidence_unclamped(docs, threshold) ==
    IF docs = <<>> THEN 0
    ELSE LET best_similarity == MaxSimilarity(docs, 1)
             good_docs       == CountGood(docs, threshold, 1)
             base_confidence == Min(best_similarity, One)
             doc_bonus       == Min(good_docs * BonusPerDoc, MaxBonus)
         IN  Round2(base_confidence + doc_bonus)

\* _calculate_confidence
calculate_confidence(docs, threshold) ==
    IF docs = <<>> THEN 0
    ELSE LET best_similarity == MaxSimilarity(docs, 1)
             good_docs       == CountGood(docs, threshold, 1)
             base_confidence == Min(best_similarity, One)
             doc_bonus       == Min(good_docs * BonusPerDoc, MaxBonus)
             confidence      == Min(base_confidence + doc_bonus, One)
         IN  Round2(confidence)

----------------------------------------------------------------------------
(* RAGPipeline._get_llm_response *)

DegradedAnswer == "LLM yanit vermedi. Lutfen daha sonra tekrar deneyin."

\* what chat.completions.create can do: return a completion with text,
\* return one whose content is None (.strip() then raises), or raise
LLMOutcomes == {" text ", "none", "error"}

\* response.choices[0].message.content.strip()
Strip(content) == IF content = " text " THEN "text" ELSE content

Completed(outcome) == outcome \notin {"none", "error"}

\* the fallback call has an outcome only when it is made
FallbackOutcomes(primary) ==
    IF Completed(primary) THEN {"error"} ELSE LLMOutcomes

\* the primary call has an outcome only when query gets as far as
\* _get_llm_response: search returned hits and the prompt was built
PrimaryOutcomes(hits, chat_history) ==
    IF hits = <<>> \/ create_prompt_raises(chat_history) THEN {"error"}
    ELSE LLMOutcomes

\* one call of chat.completions.create, with what the backend did on it
LLMCall(model, prompt, cfg, outcome) ==
    [model |-> model, prompt |-> prompt,
     temperature |-> cfg.temperature, max_tokens |-> cfg.max_tokens,
     outcome |-> outcome]

\* the fallback sent to the primary model again
get_llm_response_same_model(prompt, cfg, primary, fallback) ==
    IF Completed(primary)
    THEN [answer |-> Strip(primary),
          calls  |-> <<LLMCall(cfg.model, prompt, cfg, primary)>>]
    ELSE IF cfg.alternative_model # ""
         THEN [answer |-> IF Completed(fallback) THEN Strip(fallback)
                          ELSE DegradedAnswer,
               calls  |-> <<LLMCall(cfg.model, prompt, cfg, primary),
                            LLMCall(cfg.model, prompt, cfg, fallback)>>]
         ELSE [answer |-> DegradedAnswer,
               calls  |-> <<LLMCall(cfg.model, prompt, cfg, primary)>>]

\* the fallback's completion used without looking at its content
get_llm_response_unchecked(prompt, cfg, primary, fallback) ==
    IF Completed(primary)
    THEN [answer |-> Strip(primary),
          calls  |-> <<LLMCall(cfg.model, prompt, cfg, primary)>>]
    ELSE IF cfg.alternative_model # ""
         THEN [answer |-> Strip(fallback),
               calls  |-> <<LLMCall(cfg.model, prompt, cfg, primary),
                            LLMCall(cfg.alternative_model, prompt, cfg, fallback)>>]
         ELSE [answer |-> DegradedAnswer,
               calls  |-> <<LLMCall(cfg.model, prompt, cfg, primary)>>]

\* the primary model called a second time when no alternative is configured
get_llm_response_retried(prompt, cfg, primary, fallback) ==
    IF Completed(primary)
    THEN [answer |-> Strip(primary),
          calls  |-> <<LLMCall(cfg.model, prompt, cfg, primary)>>]
    ELSE IF cfg.alternative_model # ""
         THEN [answer |-> IF Completed(fallback) THEN Strip(fallback)
                          ELSE DegradedAnswer,
               calls  |-> <<LLMCall(cfg.model, prompt, cfg, primary),
                            LLMCall(cfg.alternative_model, prompt, cfg, fallback)>>]
         ELSE [answer |-> DegradedAnswer,
               calls  |-> <<LLMCall(cfg.model, prompt, cfg, primary),
                            LLMCall(cfg.model, prompt, cfg, primary)>>]

\* the answer, and the calls made to the generation backend in order
get_llm_response(prompt, cfg, primary, fallback) ==
    IF Completed(primary)
    THEN [answer |-> Strip(primary),
          calls  |-> <<LLMCall(cfg.model, prompt, cfg, primary)>>]
    ELSE IF cfg.alternative_model # ""
         THEN [answer |-> IF Completed(fallback) THEN Strip(fallback)
                          ELSE DegradedAnswer,
               calls  |-> <<LLMCall(cfg.model, prompt, cfg, primary),
                            LLMCall(cfg.alternative_model, prompt, cfg, fallback)>>]
         ELSE [answer |-> DegradedAnswer,
               calls  |-> <<LLMCall(cfg.model, prompt, cfg, primary)>>]

----------------------------------------------------------------------------
(* RAGPipeline.query *)

NoDocsAnswer == "Uzgunum, sorunuzla ilgili belge bulamadim."
ErrorAnswer  == "Uzgunum, sorunuzu islerken bir hata olustu: "
Timestamp    == "datetime.now().isoformat()"

\* the try block of query without the return on an empty hit list
query_body_no_shortcut(question, chat_history, docs, cfg, primary, fallback) ==
    IF create_prompt_raises(chat_history)
    THEN [exc |-> "AttributeError", calls |-> <<>>, result |-> <<>>]
    ELSE LET context == prepare_context(docs, cfg.similarity_threshold)
             prompt  == create_prompt(question, context, chat_history)
             llm     == get_llm_response(prompt, cfg, primary, fallback)
         IN  [exc    |-> "",
              calls  |-> llm.calls,
              result |-> [answer     |-> llm.answer,
                          sources    |-> format_sources(docs, cfg.similarity_threshold),
                          confidence |-> calculate_confidence(docs, cfg.similarity_threshold),
                          query      |-> question,
                          timestamp  |-> Timestamp,
                          retrieved_docs_count |-> Len(docs)]]

\* the try block of query: the record it returns, or the exception it
\* raises, and the calls it made to the generation backend
query_body(question, chat_history, docs, cfg, primary, fallback) ==
    IF docs = <<>>
    THEN [exc    |-> "",
          calls  |-> <<>>,
          result |-> [answer     |-> NoDocsAnswer,
                      sources    |-> <<>>,
                      confidence |-> 0,
                      query      |-> question,
                      timestamp  |-> Timestamp]]
    ELSE IF create_prompt_raises(chat_history)
    THEN [exc |-> "AttributeError", calls |-> <<>>, result |-> <<>>]
    ELSE LET context == prepare_context(docs, cfg.similarity_threshold)
             prompt  == create_prompt(question, context, chat_history)
             llm     == get_llm_response(prompt, cfg, primary, fallback)
         IN  [exc    |-> "",
              calls  |-> llm.calls,
              result |-> [answer     |-> llm.answer,
                          sources    |-> format_sources(docs, cfg.similarity_threshold),
                          confidence |-> calculate_confidence(docs, cfg.similarity_threshold),
                          query      |-> question,
                          timestamp  |-> Timestamp,
                          retrieved_docs_count |-> Len(docs)]]

\* query without its except clause
query_uncaught(question, chat_history, found, cfg, primary, fallback) ==
    LET body == IF found.exc # ""
                THEN [exc |-> found.exc, calls |-> <<>>, result |-> <<>>]
                ELSE query_body(question, chat_history, found.hits, cfg,
                                primary, fallback)
    IN  IF body.exc = ""
        THEN [raised |-> FALSE, calls |-> body.calls, result |-> body.result]
        ELSE [raised |-> TRUE,
              calls  |-> body.calls,
              result |-> [exception |-> body.exc]]

\* query: the try block under `except Exception`; `found` is what search
\* did, and an exception of search is one of the try block
query(question, chat_history, found, cfg, primary, fallback) ==
    LET body == IF found.exc # ""
                THEN [exc |-> found.exc, calls |-> <<>>, result |-> <<>>]
                ELSE query_body(question, chat_history, found.hits, cfg,
                                primary, fallback)
    IN  IF body.exc = ""
        THEN [raised |-> FALSE, calls |-> body.calls, result |-> body.result]
        ELSE [raised |-> FALSE,
              calls  |-> body.calls,
              result |-> [answer     |-> ErrorAnswer \o body.exc,
                          sources    |-> <<>>,
                          confidence |-> 0,
                          query      |-> question,
                          timestamp  |-> Timestamp]]

----------------------------------------------------------------------------
(* Inputs *)

FileOf(content) ==
    CASE content = "tck" -> "tck.txt"
      [] content = "tmk" -> "tmk.txt"
      [] content = "iik" -> "iik.txt"
      [] OTHER           -> "bos.txt"

\* documents as process_file builds them; "" is a document without content
Documents ==
    { [content |-> c, filename |-> FileOf(c), chunk_index |-> 0,
       total_chunks |-> 1] : c \in Contents \cup {""} }

Batches == UNION { [1..n -> Documents] : n \in 0..MaxBatch }

\* a chat history of n turns, user and assistant alternating; entry `bad`
\* (if any) is not a dict
History(n, bad) ==
    [i \in 1..n |->
        [role    |-> IF i = bad THEN "nondict"
                     ELSE IF i % 2 = 1 THEN "user" ELSE "assistant",
         content |-> i]]

\* well-formed histories of every length, and histories of full length whose
\* first or last entry is not a dict
Histories ==
    { History(n, 0) : n \in 0..MaxHistory }
        \cup { History(MaxHistory, 1), History(MaxHistory, MaxHistory) }

----------------------------------------------------------------------------
(* Actions on the index and the pipeline *)

InitNorm ==
    /\ distances = <<>>
    /\ similarities = <<>>

InitPreview ==
    /\ doc_content = <<>>
    /\ preview = <<>>

\* RAGPipeline.__init__ builds a ChromaManager of its own, whose
\* _initialize_client finds or creates the collection
InitManagers ==
    pipeline_handle_live = TRUE

InitClear ==
    /\ spc = "off"
    /\ dpc = "off"
    /\ snapshot = {}
    /\ raw_results = <<>>

\* _initialize_client: the collection is created or found, and
\* self.collection refers to it
InitStore ==
    /\ store_exists = TRUE
    /\ handle_live = TRUE
    /\ call = <<>>

InitChunk ==
    /\ text = <<>>
    /\ chunk_size = 1
    /\ chunk_overlap = 0
    /\ start = 0
    /\ chunks = <<>>
    /\ cpc = "off"
    /\ file_documents = <<>>

InitIndex ==
    /\ config \in {c \in Configs : c.top_k = DefaultTopK
                                   /\ c.similarity_threshold = DefaultThreshold
                                   /\ c.alternative_model = ""}
    /\ collection = {}
    /\ next_id = 0
    /\ op = "idle"
    /\ ret = TRUE
    /\ raised = FALSE
    /\ relevant_docs = <<>>
    /\ llm_calls = <<>>
    /\ InitStore
    /\ InitClear
    /\ InitManagers

Init ==
    /\ config \in { c \in Configs : c.top_k = 2 }
    /\ collection = {}
    /\ next_id = 0
    /\ op = "idle"
    /\ ret = TRUE
    /\ raised = FALSE
    /\ relevant_docs = <<>>
    /\ llm_calls = <<>>
    /\ InitStore
    /\ InitClear
    /\ InitPreview
    /\ InitManagers
    /\ InitNorm
    /\ InitChunk

\* positions of the batch whose document has content
WithContent(documents) ==
    { i \in 1..Len(documents) : documents[i].content # "" }

\* the records add_documents hands to collection.add, with the document
\* identifier taken from the content
new_records_by_content(documents, first_id) ==
    { [id       |-> 100 + encode(documents[i].content),
       content  |-> documents[i].content,
       metadata |-> [filename     |-> documents[i].filename,
                     chunk_index  |-> documents[i].chunk_index,
                     total_chunks |-> documents[i].total_chunks]]
      : i \in WithContent(documents) }

\* the records add_documents hands to collection.add: the i-th document
\* gets the i-th uuid4 drawn in the call
new_records(documents, first_id) ==
    { [id       |-> first_id + i,
       content  |-> documents[i].content,
       metadata |-> [filename     |-> documents[i].filename,
                     chunk_index  |-> documents[i].chunk_index,
                     total_chunks |-> documents[i].total_chunks]]
      : i \in WithContent(documents) }

\* add_documents: a uuid4 is drawn for every document, before its content
\* is looked at; documents without content are skipped; nothing is stored
\* when no text is left or when the embedding or the collection fails (a
\* collection that self.collection no longer refers to fails every call).
AddDocuments(documents, backend_ok) ==
    /\ op = "idle"
    /\ next_id + Len(documents) <= MaxIds
    /\ LET stored  == new_records(documents, next_id)
           success == documents # <<>> /\ stored # {} /\ backend_ok /\ handle_live
       IN  /\ collection' = IF success THEN collection \cup stored ELSE collection
           /\ ret' = success
    /\ next_id' = next_id + Len(documents)
    /\ op' = "add_documents"
    /\ call' = [documents |-> documents, backend_ok |-> backend_ok]
    /\ raised' = FALSE
    /\ relevant_docs' = <<>>
    /\ llm_calls' = <<>>
    /\ UNCHANGED <<config, storeVars, clearVars, normVars, chunkVars,
                   previewVars, managerVars>>

\* delete_all that returns without creating the collection again
delete_all_no_recreate(coll, exists, live, delete_ok, create_ok) ==
    IF ~exists \/ ~delete_ok
    THEN [records |-> coll, exists |-> exists, live |-> live, ret |-> FALSE]
    ELSE [records |-> {}, exists |-> FALSE, live |-> FALSE, ret |-> TRUE]

\* delete_all: client.delete_collection, which raises when the store has
\* no collection of the name, then client.get_or_create_collection, whose
\* result is assigned to self.collection; an exception of either call is
\* caught and gives False.
delete_all(coll, exists, live, delete_ok, create_ok) ==
    IF ~exists \/ ~delete_ok
    THEN [records |-> coll, exists |-> exists, live |-> live, ret |-> FALSE]
    ELSE IF ~create_ok
    THEN [records |-> {}, exists |-> FALSE, live |-> FALSE, ret |-> FALSE]
    ELSE [records |-> {}, exists |-> TRUE, live |-> TRUE, ret |-> TRUE]

DeleteAll(delete_ok, create_ok) ==
    /\ op = "idle"
    /\ LET after == delete_all(collection, store_exists, handle_live,
                               delete_ok, create_ok)
       IN  /\ collection' = after.records
           /\ store_exists' = after.exists
           /\ handle_live' = after.live
           /\ ret' = after.ret
    /\ op' = "delete_all"
    /\ call' = [delete_ok |-> delete_ok, create_ok |-> create_ok,
                count |-> Cardinality(collection)]
    /\ raised' = FALSE
    /\ relevant_docs' = <<>>
    /\ llm_calls' = <<>>
    /\ UNCHANGED <<config, next_id, clearVars, normVars, chunkVars,
                   previewVars, managerVars>>

\* the caller's list with everything but its last three entries removed
caller_history_trimmed(chat_history) == LastThree(chat_history)

\* the caller's chat_history list once query has returned: query hands it
\* to _create_prompt, which reads the copy chat_history[-3:] and assigns
\* nothing to the list or to its entries
caller_history(chat_history) == chat_history

\* query(question, chat_history): the collection reports its nearest
\* records, or the embedding or the collection fails, and each generation
\* call that is made completes or fails
Query(question) ==
    /\ op = "idle"
    /\ \E results \in CollectionQuery(collection, question, config.top_k) :
       \E chat_history \in Histories, backend_ok \in BOOLEAN :
       LET found == search(question, config.top_k,
                           backend_ok /\ handle_live, results)
       IN
       \E primary \in PrimaryOutcomes(found.hits, chat_history) :
       \E fallback \in FallbackOutcomes(primary) :
          LET q == query(question, chat_history, found, config,
                         primary, fallback)
          IN  /\ relevant_docs' = found.hits
              /\ llm_calls' = q.calls
              /\ ret' = q.result
              /\ raised' = q.raised
              /\ call' = [question       |-> question,
                          chat_history   |-> chat_history,
                          caller_history |-> caller_history(chat_history),
                          search_ok      |-> backend_ok /\ handle_live]
    /\ op' = "query"
    /\ UNCHANGED <<collection, config, next_id, storeVars, clearVars,
                   normVars, chunkVars,
                   previewVars, managerVars>>

\* the caller takes the return value; hits and results are transient and
\* are dropped once the operation has completed
Return ==
    /\ op # "idle"
    /\ op' = "idle"
    /\ ret' = TRUE
    /\ raised' = FALSE
    /\ relevant_docs' = <<>>
    /\ llm_calls' = <<>>
    /\ call' = <<>>
    /\ UNCHANGED <<collection, config, next_id, storeVars, clearVars,
                   normVars, chunkVars,
                   previewVars, managerVars>>

Next ==
    \/ \E documents \in Batches, backend_ok \in BOOLEAN :
          AddDocuments(documents, backend_ok)
    \/ \E delete_ok, create_ok \in BOOLEAN : DeleteAll(delete_ok, create_ok)
    \/ \E question \in Questions : Query(question)
    \/ Return

Spec == Init /\ [][Next]_vars

----------------------------------------------------------------------------
(* The distance-to-similarity conversion of search, on the raw distances  *)
(* of one result list (the index reports them nearest first).             *)

RawDistances == { d \in (-DistBelow)..DistMax : d % DistStep = 0 }

InitNormSpec ==
    /\ distances \in { r \in RawDistances \X RawDistances : r[1] <= r[2] }
    /\ similarities = <<>>
    /\ InitIndex
    /\ InitChunk
    /\ InitPreview

\* the loop of search over results['distances'][0]
ConvertDistances ==
    /\ similarities = <<>>
    /\ similarities' = [i \in 1..Len(distances) |-> SimilarityOf(distances[i])]
    /\ UNCHANGED <<distances, indexVars, clearVars, chunkVars,
                   previewVars, managerVars>>

NextNorm == ConvertDistances

SpecNorm == InitNormSpec /\ [][NextNorm]_vars

----------------------------------------------------------------------------
(* DocumentProcessor: _clean_text and _split_into_chunks.                  *)
(* A text is a sequence of characters; positions are Python's, from 0.     *)

Chars == {"a", " "}

IsSpace(c) == c = " "

\* text.strip()
RECURSIVE LStrip(_)
LStrip(s) ==
    IF s # <<>> /\ IsSpace(Head(s)) THEN LStrip(Tail(s)) ELSE s

RECURSIVE RStrip(_)
RStrip(s) ==
    IF s # <<>> /\ IsSpace(s[Len(s)]) THEN RStrip(SubSeq(s, 1, Len(s) - 1))
    ELSE s

StripText(s) == RStrip(LStrip(s))

\* re.sub(r'\s+', ' ', text)
RECURSIVE CollapseSpaces(_)
CollapseSpaces(s) ==
    IF Len(s) <= 1 THEN s
    ELSE IF IsSpace(s[1]) /\ IsSpace(s[2]) THEN CollapseSpaces(Tail(s))
    ELSE <<s[1]>> \o CollapseSpaces(Tail(s))

MinTextLen == 10

\* _clean_text
clean_text(raw) ==
    LET stripped == StripText(CollapseSpaces(raw))
    IN  IF Len(stripped) < MinTextLen THEN <<>> ELSE stripped

\* a slice bound as Python adjusts it: negative bounds count from the end
SliceIndex(len, i) ==
    IF i < 0 THEN Max(i + len, 0) ELSE Min(i, len)

\* s[i:j]
Slice(s, i, j) ==
    SubSeq(s, SliceIndex(Len(s), i) + 1, SliceIndex(Len(s), j))

\* s.rfind(' ', i, j): the highest position of a space in s[i:j], or -1
RFindSpace(s, i, j) ==
    LET found == { k \in SliceIndex(Len(s), i)..(SliceIndex(Len(s), j) - 1) :
                      IsSpace(s[k + 1]) }
    IN  IF found = {} THEN -1
        ELSE CHOOSE k \in found : \A m \in found : m <= k

\* [chunk for chunk in chunks if chunk.strip()]
NonEmptyChunks(cs) ==
    LET HasText(chunk) == StripText(chunk) # <<>>
    IN  SelectSeq(cs, HasText)

RECURSIVE SeqsUpTo(_)
SeqsUpTo(n) ==
    IF n = 0 THEN {<<>>}
    ELSE LET shorter == SeqsUpTo(n - 1)
         IN  shorter \cup { Append(t, c) : t \in { u \in shorter : Len(u) = n - 1 },
                                           c \in Chars }

\* what process_file hands to _split_into_chunks: the cleaned text of
\* every extracted text that is not blank (a blank one returns [] before)
CleanedTexts ==
    { clean_text(raw) :
        raw \in { r \in SeqsUpTo(MaxRawLen) : StripText(r) # <<>> } }

\* DocumentProcessor.__init__ takes chunk_size and chunk_overlap from the
\* configuration as they are: nothing is tested and nothing is raised, so
\* every pair of values is a processor that process_file then runs.
InitChunkSpec ==
    /\ text \in CleanedTexts
    /\ chunk_size \in 0..MaxChunkSize
    /\ chunk_overlap \in 0..MaxOverlap
    /\ start = 0
    /\ chunks = <<>>
    /\ cpc = "call"
    /\ file_documents = <<>>
    /\ InitIndex
    /\ InitNorm
    /\ InitPreview

\* entry of _split_into_chunks: a text that fits one chunk is returned whole
SplitEnter ==
    /\ cpc = "call"
    /\ IF Len(text) <= chunk_size
       THEN /\ chunks' = <<text>>
            /\ cpc' = "done"
       ELSE /\ chunks' = <<>>
            /\ cpc' = "loop"
    /\ start' = 0
    /\ UNCHANGED <<text, chunk_size, chunk_overlap, file_documents,
                   indexVars, clearVars, normVars,
                   previewVars, managerVars>>

\* the right edge of the window that starts at st
WindowEnd(st) ==
    LET end        == st + chunk_size
        last_space == RFindSpace(text, st, end)
    IN  IF end >= Len(text) THEN end
        ELSE IF last_space > st THEN last_space ELSE end

\* the chunk cut one character short of the window's right edge
WindowChunk_off_by_one(st) ==
    IF st + chunk_size >= Len(text) THEN Slice(text, st, Len(text))
    ELSE Slice(text, st, WindowEnd(st) - 1)

\* the chunk cut from the window that starts at st
WindowChunk(st) ==
    IF st + chunk_size >= Len(text) THEN Slice(text, st, Len(text))
    ELSE Slice(text, st, WindowEnd(st))

\* one iteration of the while loop; the function returns the non-empty
\* chunks when the loop is left
SplitIterate ==
    /\ cpc = "loop"
    /\ start < Len(text)
    /\ Len(chunks) < MaxChunks
    /\ start' = WindowEnd(start) - chunk_overlap
    /\ IF start' >= Len(text)
       THEN /\ chunks' = NonEmptyChunks(Append(chunks, StripText(WindowChunk(start))))
            /\ cpc' = "done"
       ELSE /\ chunks' = Append(chunks, StripText(WindowChunk(start)))
            /\ cpc' = "loop"
    /\ UNCHANGED <<text, chunk_size, chunk_overlap, file_documents,
                   indexVars, clearVars, normVars,
                   previewVars, managerVars>>

FileName == "belge.txt"

\* the document records with chunk_index counted from 1
build_documents_from_one(cs) ==
    [i \in 1..Len(cs) |->
        [content      |-> cs[i],
         filename     |-> FileName,
         chunk_index  |-> i,
         total_chunks |-> Len(cs)]]

\* process_file: for i, chunk in enumerate(chunks): one record per chunk
build_documents(cs) ==
    [i \in 1..Len(cs) |->
        [content      |-> cs[i],
         filename     |-> FileName,
         chunk_index  |-> i - 1,
         total_chunks |-> Len(cs)]]

\* process_file after _split_into_chunks has returned: the records are
\* built and returned
BuildDocuments ==
    /\ cpc = "done"
    /\ file_documents' = build_documents(chunks)
    /\ cpc' = "returned"
    /\ UNCHANGED <<text, chunk_size, chunk_overlap, start, chunks,
                   indexVars, clearVars, normVars,
                   previewVars, managerVars>>

NextChunk == SplitEnter \/ SplitIterate \/ BuildDocuments

SpecChunk == InitChunkSpec /\ [][NextChunk]_vars

----------------------------------------------------------------------------
(* _calculate_confidence on its own, over hit lists in any order *)

\* 1050 is what the conversion of search gives for the raw distance -1.0
SimilaritySamples == {0, 300, 700, 900, 1000, 1050}

HitLists ==
    UNION { [1..n -> [similarity : SimilaritySamples]] : n \in 1..MaxHits }

InitConfSpec ==
    /\ config \in { c \in Configs : c.top_k = DefaultTopK
                                    /\ c.alternative_model = "" }
    /\ relevant_docs \in HitLists
    /\ collection = {}
    /\ next_id = 0
    /\ op = "idle"
    /\ ret = TRUE
    /\ raised = FALSE
    /\ llm_calls = <<>>
    /\ InitStore
    /\ InitClear
    /\ InitPreview
    /\ InitManagers
    /\ InitNorm
    /\ InitChunk

CalculateConfidence ==
    /\ op = "idle"
    /\ op' = "calculate_confidence"
    /\ ret' = calculate_confidence(relevant_docs, config.similarity_threshold)
    /\ UNCHANGED <<config, collection, next_id, raised, relevant_docs,
                   llm_calls, storeVars, call, clearVars, normVars, chunkVars,
                   previewVars, managerVars>>

NextConf == CalculateConfidence

SpecConf == InitConfSpec /\ [][NextConf]_vars

----------------------------------------------------------------------------
(* A search and a delete_all on the same ChromaManager, issued by two     *)
(* requests or threads: each call of the embedding model and of the       *)
(* Chroma client is one step, and the steps of the two interleave freely. *)

\* the collections a clear can start from: what add_documents stored
ClearCollections == { new_records(b, 0) : b \in Batches } \ {{}}

InitClearSpec ==
    /\ config \in {c \in Configs : c.top_k = DefaultTopK
                                   /\ c.similarity_threshold = DefaultThreshold
                                   /\ c.alternative_model = ""}
    /\ collection \in ClearCollections
    /\ snapshot = collection
    /\ store_exists = TRUE
    /\ handle_live = TRUE
    /\ call \in [question : Questions]
    /\ next_id = MaxBatch
    /\ op = "idle"
    /\ ret = TRUE
    /\ raised = FALSE
    /\ relevant_docs = <<>>
    /\ llm_calls = <<>>
    /\ spc = "call"
    /\ dpc = "call"
    /\ raw_results = <<>>
    /\ InitNorm
    /\ InitChunk
    /\ InitPreview
    /\ InitManagers

\* search: query_embedding = self.embedding_model.encode([query])
SearchEncode(backend_ok) ==
    /\ spc = "call"
    /\ IF backend_ok
       THEN /\ spc' = "query"
            /\ UNCHANGED relevant_docs
       ELSE /\ spc' = "done"
            /\ relevant_docs' = <<>>
    /\ UNCHANGED <<config, collection, next_id, op, ret, raised, llm_calls,
                   storeVars, call, dpc, snapshot, raw_results,
                   normVars, chunkVars,
                   previewVars, managerVars>>

\* search: results = self.collection.query(...); the call raises when
\* self.collection refers to a collection that the store no longer holds
SearchCollectionQuery(backend_ok) ==
    /\ spc = "query"
    /\ IF backend_ok /\ handle_live
       THEN /\ raw_results' \in CollectionQuery(collection, call.question,
                                                config.top_k)
            /\ spc' = "format"
            /\ UNCHANGED relevant_docs
       ELSE /\ spc' = "done"
            /\ relevant_docs' = <<>>
            /\ UNCHANGED raw_results
    /\ UNCHANGED <<config, collection, next_id, op, ret, raised, llm_calls,
                   storeVars, call, dpc, snapshot, normVars, chunkVars,
                   previewVars, managerVars>>

\* search: the formatting loop and the return
SearchFormat ==
    /\ spc = "format"
    /\ relevant_docs' = search(call.question, config.top_k, TRUE,
                               raw_results).hits
    /\ spc' = "done"
    /\ UNCHANGED <<config, collection, next_id, op, ret, raised, llm_calls,
                   storeVars, call, dpc, snapshot, raw_results,
                   normVars, chunkVars,
                   previewVars, managerVars>>

\* the store after a deletion that removes the records one at a time
delete_collection_by_record(coll) ==
    LET rest == coll \ {CHOOSE r \in coll : TRUE}
    IN  [records |-> rest, exists |-> TRUE]

\* the store after client.delete_collection(name): the collection is gone
\* with all of its records
delete_collection(coll) ==
    [records |-> {}, exists |-> FALSE]

\* delete_all: self.client.delete_collection(name=collection_name)
DeleteCollection(backend_ok) ==
    /\ dpc = "call"
    /\ IF backend_ok /\ store_exists
       THEN /\ collection' = delete_collection(collection).records
            /\ store_exists' = delete_collection(collection).exists
            /\ handle_live' = (handle_live /\ store_exists')
            /\ dpc' = "create"
            /\ UNCHANGED ret
       ELSE /\ ret' = FALSE
            /\ dpc' = "done"
            /\ UNCHANGED <<collection, storeVars>>
    /\ UNCHANGED <<config, next_id, op, raised, relevant_docs, llm_calls,
                   call, spc, snapshot, raw_results, normVars, chunkVars,
                   previewVars, managerVars>>

\* delete_all: self.client.get_or_create_collection(...)
CreateCollection(backend_ok) ==
    /\ dpc = "create"
    /\ IF backend_ok
       THEN /\ store_exists' = TRUE
            /\ dpc' = "assign"
            /\ UNCHANGED ret
       ELSE /\ ret' = FALSE
            /\ dpc' = "done"
            /\ UNCHANGED store_exists
    /\ UNCHANGED <<config, collection, next_id, op, raised, relevant_docs,
                   llm_calls, handle_live, call, spc, snapshot, raw_results,
                   normVars, chunkVars,
                   previewVars, managerVars>>

\* delete_all: self.collection = <the collection created>; return True
AssignCollection ==
    /\ dpc = "assign"
    /\ handle_live' = TRUE
    /\ ret' = TRUE
    /\ dpc' = "done"
    /\ UNCHANGED <<config, collection, next_id, op, raised, relevant_docs,
                   llm_calls, store_exists, call, spc, snapshot, raw_results,
                   normVars, chunkVars,
                   previewVars, managerVars>>

NextClear ==
    \/ \E backend_ok \in BOOLEAN : SearchEncode(backend_ok)
    \/ \E backend_ok \in BOOLEAN : SearchCollectionQuery(backend_ok)
    \/ SearchFormat
    \/ \E backend_ok \in BOOLEAN : DeleteCollection(backend_ok)
    \/ \E backend_ok \in BOOLEAN : CreateCollection(backend_ok)
    \/ AssignCollection

SpecClear == InitClearSpec /\ [][NextClear]_vars

----------------------------------------------------------------------------
(* Two ChromaManager instances on one collection, as app.py builds them:   *)
(* the one initialize_processors returns, through which the page adds and  *)
(* clears, and the one RAGPipeline owns, through which queries search.     *)
(* handle_live is the collection handle of the first, pipeline_handle_live *)
(* that of the second.                                                     *)

InitManagersSpec ==
    /\ InitIndex
    /\ InitNorm
    /\ InitChunk
    /\ InitPreview

\* a collection handle of another manager once delete_all has run: the
\* collection it refers to is gone from the store when
\* client.delete_collection succeeded, and nothing assigns it again
other_handle(live, exists, delete_ok) ==
    IF exists /\ delete_ok THEN FALSE ELSE live

\* chroma_manager.delete_all() of the page
ProcessorDeleteAll(delete_ok, create_ok) ==
    /\ op = "idle"
    /\ LET after == delete_all(collection, store_exists, handle_live,
                               delete_ok, create_ok)
       IN  /\ collection' = after.records
           /\ store_exists' = after.exists
           /\ handle_live' = after.live
           /\ ret' = after.ret
    /\ pipeline_handle_live' = other_handle(pipeline_handle_live,
                                            store_exists, delete_ok)
    /\ op' = "delete_all"
    /\ call' = [delete_ok |-> delete_ok, create_ok |-> create_ok,
                count |-> Cardinality(collection)]
    /\ raised' = FALSE
    /\ relevant_docs' = <<>>
    /\ llm_calls' = <<>>
    /\ UNCHANGED <<config, next_id, clearVars, normVars, chunkVars,
                   previewVars>>

\* self.chroma_manager.search(question, n_results=top_k) of the pipeline
PipelineSearch(question) ==
    /\ op = "idle"
    /\ \E results \in CollectionQuery(collection, question, config.top_k) :
       \E backend_ok \in BOOLEAN :
          LET found == search(question, config.top_k,
                              backend_ok /\ pipeline_handle_live, results)
          IN  /\ relevant_docs' = found.hits
              /\ ret' = found.hits
              /\ raised' = (found.exc # "")
              /\ call' = [question |-> question, backend_ok |-> backend_ok]
    /\ op' = "search"
    /\ UNCHANGED <<collection, config, next_id, llm_calls, storeVars,
                   clearVars, normVars, chunkVars, previewVars, managerVars>>

NextManagers ==
    \/ \E documents \in Batches, backend_ok \in BOOLEAN :
          AddDocuments(documents, backend_ok)
    \/ \E delete_ok, create_ok \in BOOLEAN :
          ProcessorDeleteAll(delete_ok, create_ok)
    \/ \E question \in Questions : PipelineSearch(question)
    \/ Return

SpecManagers == InitManagersSpec /\ [][NextManagers]_vars

----------------------------------------------------------------------------
(* The /query endpoint of main.py, over what chroma_manager.search can     *)
(* return: hits in non-increasing similarity order.                        *)

EndpointNoDocsAnswer == "Uzgunum, sorunuzla ilgili belgelerde bilgi bulunamadi."
FallbackAnswer       == "get_fallback_answer(question)"
FallbackConfidence   == 500     \* 0.5

EndpointResults ==
    { [i \in 1..Len(l) |->
          [content    |-> "tck",
           metadata   |-> [filename |-> FileOf("tck"), chunk_index |-> i - 1],
           similarity |-> l[i].similarity]] :
      l \in { h \in HitLists :
                \A i \in 1..(Len(h) - 1) :
                    h[i].similarity >= h[i + 1].similarity } }

\* main.calculate_confidence: min(sum / len, 1.0), kept as the fraction
\* num / den of thousandths since the mean is not rounded
main_calculate_confidence(results) ==
    IF results = <<>> THEN [num |-> 0, den |-> 1]
    ELSE [num |-> Min(SumSimilarity(results, 1), Len(results) * One),
          den |-> Len(results)]

\* the sources list of the endpoint: one entry per hit
endpoint_sources(results) ==
    [n \in 1..Len(results) |->
        [filename    |-> results[n].metadata.filename,
         content     |-> results[n].content,
         similarity  |-> results[n].similarity,
         chunk_index |-> results[n].metadata.chunk_index]]

\* query_documents: the response of POST /query
query_documents(question, manager_up, search_results) ==
    IF ~manager_up
    THEN [query |-> question, answer |-> FallbackAnswer,
          confidence |-> [num |-> FallbackConfidence, den |-> 1],
          sources |-> <<>>]
    ELSE IF search_results = <<>>
    THEN [query |-> question, answer |-> EndpointNoDocsAnswer,
          confidence |-> [num |-> 0, den |-> 1],
          sources |-> <<>>]
    ELSE [query |-> question,
          answer |-> [context |->
                        [i \in 1..Min(3, Len(search_results)) |->
                            search_results[i].content]],
          confidence |-> main_calculate_confidence(search_results),
          sources |-> endpoint_sources(search_results)]

InitEndpointSpec ==
    /\ config \in { c \in Configs : c.top_k = DefaultTopK
                                    /\ c.alternative_model = "" }
    /\ relevant_docs \in EndpointResults \cup {<<>>}
    /\ collection = {}
    /\ next_id = 0
    /\ op = "idle"
    /\ ret = TRUE
    /\ raised = FALSE
    /\ llm_calls = <<>>
    /\ InitStore
    /\ InitClear
    /\ InitManagers
    /\ InitNorm
    /\ InitChunk
    /\ InitPreview

\* POST /query; relevant_docs is what chroma_manager.search returns when
\* the manager was built at startup
QueryDocuments(question, manager_up) ==
    /\ op = "idle"
    /\ op' = "query_documents"
    /\ call' = [question |-> question, manager_up |-> manager_up]
    /\ ret' = query_documents(question, manager_up, relevant_docs)
    /\ UNCHANGED <<config, collection, next_id, raised, relevant_docs,
                   llm_calls, storeVars, clearVars, normVars, chunkVars,
                   previewVars, managerVars>>

NextEndpoint ==
    \E question \in Questions, manager_up \in BOOLEAN :
        QueryDocuments(question, manager_up)

SpecEndpoint == InitEndpointSpec /\ [][NextEndpoint]_vars

----------------------------------------------------------------------------
(* The 'preview' of a source entry, over contents around 200 characters *)

PreviewLimit == 200

Ellipsis == <<".", ".", ".">>

\* doc['content'][:200] + "..." if len(doc['content']) > 200
\* else doc['content']
source_preview(content) ==
    IF Len(content) > PreviewLimit
    THEN Slice(content, 0, PreviewLimit) \o Ellipsis
    ELSE content

DocContents == { [i \in 1..n |-> "a"] : n \in 0..MaxContentLen }

InitPreviewSpec ==
    /\ doc_content \in DocContents
    /\ preview = <<>>
    /\ InitIndex
    /\ InitNorm
    /\ InitChunk

\* the 'preview' entry that _format_sources builds for one hit
FormatPreview ==
    /\ op = "idle"
    /\ op' = "format_sources"
    /\ preview' = source_preview(doc_content)
    /\ UNCHANGED <<config, collection, next_id, ret, raised, relevant_docs,
                   llm_calls, storeVars, call, clearVars, normVars, chunkVars,
                   doc_content, managerVars>>

NextPreview == FormatPreview

SpecPreview == InitPreviewSpec /\ [][NextPreview]_vars

----------------------------------------------------------------------------
(* Properties *)

ResultFields == {"answer", "sources", "confidence", "query", "timestamp"}

Threshold == config.similarity_threshold

PrimaryFailed ==
    /\ op = "query"
    /\ llm_calls # <<>>
    /\ ~Completed(llm_calls[1].outcome)

\* the result was built by the except clause of query
CaughtException ==
    /\ op = "query"
    /\ ret.answer = ErrorAnswer \o "AttributeError"

\* C1: query never raises: whatever search, prompt building and the two
\* generation calls do, it returns a record with answer, sources,
\* confidence, query and timestamp.
C1_QueryNeverRaises ==
    op = "query" => /\ raised = FALSE
                    /\ ResultFields \subseteq DOMAIN ret

C1_Witness ==
    /\ CaughtException
    /\ relevant_docs # <<>>
    /\ raised = FALSE

\* C2: when the primary generation call fails and an alternative model is
\* configured, the backend is called exactly once more, with the
\* alternative model and the prompt, temperature and max_tokens of the
\* primary call.
C2_FallbackCalledOnce ==
    (PrimaryFailed /\ config.alternative_model # "") =>
        /\ Len(llm_calls) = 2
        /\ llm_calls[1].model = config.model
        /\ llm_calls[2].model = config.alternative_model
        /\ llm_calls[2].prompt = llm_calls[1].prompt
        /\ llm_calls[2].temperature = llm_calls[1].temperature
        /\ llm_calls[2].max_tokens = llm_calls[1].max_tokens

C2_Witness ==
    /\ PrimaryFailed
    /\ config.alternative_model # ""
    /\ Len(llm_calls) = 2
    /\ llm_calls[1].prompt.history # <<>>
    /\ llm_calls[1].prompt.context # <<>>

\* C3: when the primary call fails and the fallback call fails too, or no
\* alternative model is configured, the answer is the fixed degraded
\* message and no exception leaves query.
C3_DegradedAnswer ==
    (/\ PrimaryFailed
     /\ \/ config.alternative_model = ""
        \/ Len(llm_calls) >= 2 /\ ~Completed(llm_calls[2].outcome)) =>
        /\ ret.answer = DegradedAnswer
        /\ raised = FALSE

C3_Witness ==
    /\ PrimaryFailed
    /\ Len(llm_calls) = 2
    /\ llm_calls[1].outcome = "error"
    /\ llm_calls[2].outcome = "none"
    /\ ret.answer = DegradedAnswer

\* C4: when search returns no hit, query returns the fixed no-documents
\* answer with confidence 0.0 and no sources, and the generation backend is
\* not called.
C4_NoHitsShortCircuit ==
    (op = "query" /\ relevant_docs = <<>>) =>
        /\ ret.answer = NoDocsAnswer
        /\ ret.confidence = 0
        /\ ret.sources = <<>>
        /\ llm_calls = <<>>

C4_Witness ==
    /\ op = "query"
    /\ relevant_docs = <<>>
    /\ collection # {}
    /\ ret.answer = NoDocsAnswer

\* the positions of the hits at or above the threshold
GoodHits(docs, t) == { i \in 1..Len(docs) : docs[i].similarity >= t }

\* src lists exactly the hits of docs at or above t, in the order of docs,
\* and in non-increasing similarity order
SourcesMatch(src, docs, t) ==
    /\ Len(src) = Cardinality(GoodHits(docs, t))
    /\ \E f \in [1..Len(src) -> GoodHits(docs, t)] :
          /\ \A n, m \in 1..Len(src) : n < m => f[n] < f[m]
          /\ \A n \in 1..Len(src) :
                /\ src[n].filename = docs[f[n]].metadata.filename
                /\ src[n].chunk_index = docs[f[n]].metadata.chunk_index
                /\ src[n].similarity = Round2(docs[f[n]].similarity)
    /\ \A n, m \in 1..Len(src) : n < m => src[n].similarity >= src[m].similarity

ExpectedConfidence(docs, t) ==
    LET sims      == { docs[i].similarity : i \in 1..Len(docs) }
        best      == CHOOSE b \in sims : \A x \in sims : x <= b
        goodCount == Cardinality(GoodHits(docs, t))
    IN  Round2(Min(Min(best, One) + Min(goodCount * 100, 300), One))

\* C6: for a non-empty hit list, _calculate_confidence returns
\* round(min(min(best, 1.0) + min(goodCount * 0.1, 0.3), 1.0), 2) with best
\* the largest similarity of all hits and goodCount the number of hits at
\* or above the threshold; similarities 0.9 and 0.3 at threshold 0.7 give
\* 1.0.
C6_ConfidenceFormula ==
    op = "calculate_confidence" =>
        /\ ret = ExpectedConfidence(relevant_docs, Threshold)
        /\ (/\ relevant_docs = <<[similarity |-> 900], [similarity |-> 300]>>
            /\ Threshold = 700) => ret = 1000

C6_Witness ==
    /\ op = "calculate_confidence"
    /\ relevant_docs = <<[similarity |-> 900], [similarity |-> 300]>>
    /\ Threshold = 700
    /\ ret = 1000

\* C7: the confidence of every query result is within [0, 1], and it is
\* 0.0 when the hit list is empty.
C7_ConfidenceBounds ==
    op = "query" =>
        /\ 0 <= ret.confidence
        /\ ret.confidence <= One
        /\ relevant_docs = <<>> => ret.confidence = 0

C7_Witness ==
    /\ op = "query"
    /\ relevant_docs # <<>>
    /\ ~CaughtException
    /\ MaxSimilarity(relevant_docs, 1) + BonusPerDoc > One
    /\ ret.confidence = One

C9_ConversionMonotone ==
    similarities # <<>> =>
        /\ similarities[1] >= similarities[2]
        /\ \A i \in 1..2 :
              /\ distances[i] = 0 => similarities[i] = One
              /\ distances[i] >= DistanceScale => similarities[i] = 0

C9_Witness ==
    /\ similarities # <<>>
    /\ distances[1] = 0
    /\ distances[2] >= DistanceScale
    /\ similarities = <<One, 0>>

ValidChunkConfig ==
    chunk_size > 0 /\ 0 <= chunk_overlap /\ chunk_overlap < chunk_size

\* C10: with chunk_size > 0 and 0 <= chunk_overlap < chunk_size, every
\* iteration of the loop of _split_into_chunks moves the window start
\* forward, so the loop ends.
C10_StartAdvances ==
    [][(ValidChunkConfig /\ cpc = "loop") => start' > start]_vars

\* C11: a configuration with chunk_overlap >= chunk_size or chunk_size <= 0
\* is rejected before any text is chunked: _split_into_chunks is entered
\* only with a valid configuration.
C11_ChunkerOnlyWithValidConfig ==
    cpc # "call" => ValidChunkConfig

\* a chunk is trimmed: it has no leading and no trailing whitespace
Trimmed(chunk) == StripText(chunk) = chunk

\* C12: every chunk that _split_into_chunks returns, for any input text
\* (a text that fits one chunk and the empty text included), is non-empty
\* and has no leading or trailing whitespace.
C12_ChunksNonEmptyAndTrimmed ==
    cpc = "done" =>
        \A i \in 1..Len(chunks) : chunks[i] # <<>> /\ Trimmed(chunks[i])

\* does chunk c occur in the text at position p (from 0)
OccursAt(c, p) ==
    /\ p + Len(c) <= Len(text)
    /\ \A k \in 1..Len(c) : text[p + k] = c[k]

\* the chunks from the i-th on can be laid on the text, each where it
\* occurs and none before its predecessor, so that no character other
\* than whitespace is left out between position u and the end of the text
RECURSIVE CoversFrom(_, _, _)
CoversFrom(i, u, pmin) ==
    IF i > Len(chunks)
    THEN \A k \in (u + 1)..Len(text) : IsSpace(text[k])
    ELSE \E p \in pmin..Len(text) :
            /\ OccursAt(chunks[i], p)
            /\ \A k \in (u + 1)..p : IsSpace(text[k])
            /\ CoversFrom(i + 1, Max(u, p + Len(chunks[i])), p)

C14_ChunkIndexBounds ==
    cpc = "returned" =>
        \A i \in 1..Len(file_documents) :
            /\ file_documents[i].chunk_index = i - 1
            /\ file_documents[i].total_chunks = Len(file_documents)
            /\ file_documents[i].content = chunks[i]
            /\ 0 <= file_documents[i].chunk_index
            /\ file_documents[i].chunk_index < file_documents[i].total_chunks

C14_Witness ==
    /\ cpc = "returned"
    /\ Len(file_documents) >= 3
    /\ file_documents[3].chunk_index = 2
    /\ file_documents[1].content # file_documents[3].content

Ids(coll) == { r.id : r \in coll }

\* C15: add_documents stores exactly one new record, under a fresh
\* identifier distinct from every identifier already in the index, for each
\* input document with non-empty content, and nothing for a document with
\* empty content: adding the same documents again adds as many records
\* again (no de-duplication, no update in place).  A call that the backend
\* fails returns False and stores nothing.
C15_AddStoresFreshRecords ==
    [][op' = "add_documents" =>
        LET new == collection' \ collection
            n   == Cardinality(WithContent(call'.documents))
        IN  /\ collection \subseteq collection'
            /\ (n > 0 /\ call'.backend_ok /\ handle_live) => ret' = TRUE
            /\ ret' = TRUE =>
                  /\ Cardinality(new) = n
                  /\ Cardinality(collection') = Cardinality(collection) + n
                  /\ Ids(new) \cap Ids(collection) = {}
                  /\ Cardinality(Ids(collection')) = Cardinality(collection')
                  /\ \A i \in WithContent(call'.documents) :
                        \E r \in new : r.content = call'.documents[i].content
            /\ ret' = FALSE => new = {}]_vars

C15_Witness ==
    /\ op = "add_documents"
    /\ ret = TRUE
    /\ \E i \in 1..Len(call.documents) : call.documents[i].content = ""
    /\ \E r1, r2 \in collection :
          /\ r1.id # r2.id
          /\ r1.content = r2.content
          /\ r1.metadata = r2.metadata

\* C16: after delete_all returns True the index holds no records (count()
\* is 0 and search returns an empty sequence) and is usable for later
\* add_documents and search; delete_all succeeds on an index that is
\* already empty as on any other, whenever the backend carries out its two
\* calls.
C16_DeleteAllClears ==
    [][op' = "delete_all" =>
        /\ ret' = TRUE =>
              /\ collection' = {}
              /\ store_exists' /\ handle_live'
              /\ \A q \in Questions :
                    \A r \in CollectionQuery(collection', q, config.top_k) :
                        search(q, config.top_k, handle_live', r).hits = <<>>
        /\ (store_exists /\ handle_live
              /\ call'.delete_ok /\ call'.create_ok) => ret' = TRUE]_vars

C16_Witness ==
    /\ op = "delete_all"
    /\ ret = TRUE
    /\ call.count = 0
    /\ next_id > 0
    /\ collection = {}
    /\ handle_live

\* C17: search never raises: it returns an empty sequence when the
\* collection is empty and when the embedding or the storage backend
\* fails, so a query whose retrieval fails ends in the no-documents result
\* and not in a fault.
C17_SearchFailsClosed ==
    op = "query" =>
        /\ raised = FALSE
        /\ (~call.search_ok \/ collection = {}) =>
              /\ relevant_docs = <<>>
              /\ ret.answer = NoDocsAnswer
              /\ ret.confidence = 0
              /\ llm_calls = <<>>

C17_Witness ==
    /\ op = "query"
    /\ ~call.search_ok
    /\ handle_live
    /\ collection # {}
    /\ ret.answer = NoDocsAnswer

\* role = "Kullanici" if msg.get('role') == 'user' else "Asistan"
RoleLabel(role) == IF role = "user" THEN "Kullanici" ELSE "Asistan"

\* C19: the prompt built by _create_prompt holds exactly the last
\* min(3, n) turns of an n-turn chat history, in their order, each as one
\* role-labelled line, and no older turn; with no history it has no history
\* section.
C19_PromptHistory ==
    (op = "query" /\ llm_calls # <<>>) =>
        LET h == call.chat_history
            n == Len(h)
            m == Min(3, n)
            p == llm_calls[1].prompt.history
        IN  /\ Len(p) = m
            /\ \A i \in 1..Len(p) :
                  /\ p[i].content = h[n - m + i].content
                  /\ p[i].label = RoleLabel(h[n - m + i].role)
            /\ \A i \in 1..Len(p) : \A j \in 1..(n - m) :
                  p[i].content # h[j].content
            /\ n = 0 => p = <<>>

C19_Witness ==
    /\ op = "query"
    /\ llm_calls # <<>>
    /\ Len(call.chat_history) > 3
    /\ Len(llm_calls[1].prompt.history) = 3
    /\ llm_calls[1].prompt.history[1].label = "Asistan"

\* hits list the k records of coll nearest to q, nearest first
NearestOf(hits, coll, q, k) ==
    /\ Len(hits) = Min(k, Cardinality(coll))
    /\ \A i \in 1..Len(hits) :
          /\ \E r \in coll : /\ r.id = hits[i].id
                              /\ r.content = hits[i].content
                              /\ r.metadata = hits[i].metadata
          /\ hits[i].similarity = SimilarityOf(SquaredL2(q, hits[i].content))
    /\ \A i, j \in 1..Len(hits) :
          i < j => /\ hits[i].id # hits[j].id
                   /\ hits[i].similarity >= hits[j].similarity
    /\ \A r \in coll :
          (\A i \in 1..Len(hits) : hits[i].id # r.id) =>
              \A i \in 1..Len(hits) :
                  SquaredL2(q, hits[i].content) <= SquaredL2(q, r.content)

\* C20: query leaves no persisted effect: on every path the records of the
\* index (and count()) and the caller's chat_history are as before, and the
\* hits, sources and confidence of a query are determined by the question
\* and the contents of the index, whatever queries ran before.
C20_QueryLeavesNoEffect ==
    [][op' = "query" =>
        LET t == config.similarity_threshold
        IN  /\ collection' = collection
            /\ store_exists' = store_exists
            /\ handle_live' = handle_live
            /\ next_id' = next_id
            /\ config' = config
            /\ call'.caller_history = call'.chat_history
            /\ call'.search_ok =>
                  NearestOf(relevant_docs', collection, call'.question,
                            config.top_k)
            /\ "retrieved_docs_count" \in DOMAIN ret' =>
                  /\ SourcesMatch(ret'.sources, relevant_docs', t)
                  /\ ret'.confidence = ExpectedConfidence(relevant_docs', t)]_vars

C20_Witness ==
    /\ op = "query"
    /\ Len(call.chat_history) > 3
    /\ call.caller_history = call.chat_history
    /\ Cardinality(collection) = 3
    /\ Len(relevant_docs) = 2
    /\ ret.sources # <<>>

\* the results search gives on the collection as it was before the clear
FullResults ==
    { FormatResults(call.question, r) :
        r \in CollectionQuery(snapshot, call.question, config.top_k) }

\* C18: a search that overlaps a delete_all never sees a partly cleared
\* index: under every interleaving of its steps with the steps of
\* delete_all it returns the full result as of before the clear, or the
\* empty result as of after it.
C18_SearchSeesAllOrNothing ==
    spc = "done" => (relevant_docs = <<>> \/ relevant_docs \in FullResults)

C18_Witness ==
    /\ spc = "done"
    /\ dpc \in {"create", "assign"}
    /\ collection = {}
    /\ Len(relevant_docs) = 2
    /\ relevant_docs \in FullResults

\* C21: the preview of every source entry built by _format_sources has at
\* most 200 characters, whatever the length of the hit's content.
C21_PreviewAtMost200 ==
    op = "format_sources" => Len(preview) <= PreviewLimit

\* C22: a query calls the generation backend at most twice: once when the
\* primary call succeeds (the alternative model is then not called), once
\* when it fails and no alternative model is configured, twice when it
\* fails and an alternative model is configured.
C22_AtMostTwoCalls ==
    op = "query" =>
        /\ Len(llm_calls) <= 2
        /\ llm_calls # <<>> =>
              /\ llm_calls[1].model = config.model
              /\ Len(llm_calls) =
                    IF Completed(llm_calls[1].outcome) THEN 1
                    ELSE IF config.alternative_model = "" THEN 1 ELSE 2

C22_Witness ==
    /\ op = "query"
    /\ config.alternative_model # ""
    /\ Len(llm_calls) = 1
    /\ Completed(llm_calls[1].outcome)
    /\ ret.answer = "text"

\* C23: a result that carries the degraded answer has a confidence below
\* the similarity threshold, whatever the similarities of the hits.
C23_DegradedConfidenceLow ==
    (op = "query" /\ ret.answer = DegradedAnswer) =>
        ret.confidence < Threshold

\* search returned hits and none of them reaches the threshold
NoGoodHits ==
    /\ op = "query"
    /\ relevant_docs # <<>>
    /\ \A i \in 1..Len(relevant_docs) :
          relevant_docs[i].similarity < Threshold

\* the outcome of a query whose hits are all below the threshold: the
\* prompt sent has an empty context, no source is listed, and the
\* confidence of the success result is the best similarity, rounded
BelowThresholdOutcome ==
    /\ ~CaughtException
    /\ "retrieved_docs_count" \in DOMAIN ret
    /\ llm_calls # <<>>
    /\ llm_calls[1].prompt.context = <<>>
    /\ ret.sources = <<>>
    /\ ret.confidence = Round2(MaxSimilarity(relevant_docs, 1))

WindowSpaces(st) ==
    { k \in Max(st + 1, 0)..Min(st + chunk_size - 1, Len(text) - 1) :
        IsSpace(text[k + 1]) }

\* the right edge of the chunk cut from that window, by the rule of C25
CutPoint(st) ==
    IF WindowSpaces(st) = {} THEN st + chunk_size
    ELSE CHOOSE k \in WindowSpaces(st) : \A m \in WindowSpaces(st) : m <= k

\* C25: in _split_into_chunks, when start + chunk_size is before the end of
\* the text, the chunk ends at the last space of the window that lies
\* strictly after start, and at start + chunk_size when the window has no
\* such space (stated for the valid configurations).
C25_CutAtLastSpace ==
    [][(cpc = "loop" /\ ValidChunkConfig /\ start + chunk_size < Len(text)) =>
          /\ chunks'[Len(chunks) + 1]
                = StripText(Slice(text, start, CutPoint(start)))
          /\ start' = CutPoint(start) - chunk_overlap]_vars

\* C26: process_file returns no chunk record for a document whose cleaned
\* text is shorter than the minimum length of 10 characters.
C26_ShortTextDiscarded ==
    (cpc = "returned" /\ Len(text) < MinTextLen) => file_documents = <<>>

\* C27: after any sequence of delete_all and successful add_documents
\* calls through one ChromaManager, a search through another ChromaManager
\* on the same collection returns the records the collection holds, the
\* most recently added included: with the embedding and the store working
\* it lists the nearest records, and is not empty on a collection that is
\* not.
C27_ReadAfterWriteAcrossHandles ==
    (op = "search" /\ call.backend_ok) =>
        NearestOf(relevant_docs, collection, call.question, config.top_k)

\* C28: for hits in non-increasing similarity order (the order of search),
\* the context of the prompt and the sources of the result describe the
\* same hits in the same order: the blocks are labelled 1..k, k is the
\* number of sources, and block N names the file of the N-th source.
C28_ContextMatchesSources ==
    (op = "query" /\ llm_calls # <<>>) =>
        LET context == llm_calls[1].prompt.context
        IN  /\ \A i \in 1..(Len(relevant_docs) - 1) :
                  relevant_docs[i].similarity >= relevant_docs[i + 1].similarity
            /\ Len(context) = Len(ret.sources)
            /\ \A n \in 1..Len(context) :
                  /\ context[n].label = n
                  /\ context[n].filename = ret.sources[n].filename

C28_Witness ==
    /\ op = "query"
    /\ llm_calls # <<>>
    /\ Len(ret.sources) = 2
    /\ llm_calls[1].prompt.context[2].label = 2
    /\ ret.sources[1].filename # ret.sources[2].filename
    /\ ret.sources[1].similarity > ret.sources[2].similarity

\* C29: _split_into_chunks emits no redundant chunk: the chunk cut from a
\* window that reaches the end of the text (start + chunk_size >= len(text))
\* is the last one, and the loop is left after it.
C29_LastChunkReachesEnd ==
    [][(cpc = "loop" /\ ValidChunkConfig
          /\ start + chunk_size >= Len(text)) => cpc' = "done"]_vars

\* C30: for every non-empty hit sequence the confidence of the /query
\* endpoint equals what _calculate_confidence gives for the same hits, and
\* the endpoint's sources hold only hits at or above the threshold.
C30_EndpointAgreesWithPipeline ==
    (op = "query_documents" /\ call.manager_up /\ relevant_docs # <<>>) =>
        /\ ret.confidence.num
              = calculate_confidence(relevant_docs, Threshold)
                  * ret.confidence.den
        /\ \A n \in 1..Len(ret.sources) :
              ret.sources[n].similarity >= Threshold

====
